---------------------------- MODULE Spec2Model ----------------------------
(***************************************************************************)
(* A model of export_code.py (src/cc.py): the checkbox tree dialog          *)
(* (TreeSelectDialog), the path filter (collect_code_files_in_dir), the     *)
(* reader/writer (read_file, write_export) and the orchestration in main.   *)
(*                                                                         *)
(* Strings are sequences of one-character strings, a path is the sequence   *)
(* of its parts (names), the filesystem is a function from the paths that   *)
(* exist to [kind, data].                                                   *)
(***************************************************************************)
EXTENDS Naturals, Sequences, FiniteSets, TLC

VARIABLES
    fs,               \* the filesystem: path -> [kind, data]
    pc,               \* where main() is: "start", "dialog", "closed", "exit"
    base_dir,         \* main's base_dir / the dialog's self.base_dir (<<>> before)
    tree_children,    \* ttk.Treeview: item id -> its children (0 is the "" item)
    tree_text,        \* ttk.Treeview: item id -> the item's text
    next_iid,         \* ttk.Treeview: the number of the next item id
    selected_items,   \* self.selected_items, an insertion-ordered dict
    id_to_path,       \* self.id_to_path
    result_dirs,      \* self.result_dirs:  None or Some(list)
    result_files,     \* self.result_files: None or Some(list)
    listed,           \* how often Path.iterdir() ran on each directory
    files_to_export,  \* main's files_to_export
    entries,          \* main's entries
    export_txt,       \* what this run wrote to base_dir/export.txt: None or Some(text)
    exit_msg,         \* the message the run ended with, RUNNING before
    collected,        \* the last result of collect_code_files_in_dir
    last              \* the last handler that ran: its arguments, whether it
                      \* listed a directory, whether it raised RuntimeError,
                      \* the text it returned

vars == <<fs, pc, base_dir, tree_children, tree_text, next_iid, selected_items,
          id_to_path, result_dirs, result_files, listed, files_to_export,
          entries, export_txt, exit_msg, collected, last>>

\* A value that may be None is a sequence: empty for None, <<x>> for x.
None == <<>>
Some(x) == <<x>>

-----------------------------------------------------------------------------
(* Characters and strings                                                    *)

\* The characters of the model in code point order: str comparison in Python
\* compares code points.
Ascii ==
    <<"\n", "\r", " ", "\"", ".", "/", ":", "=", "1",
      "A", "B", "C", "D", "E", "F", "G", "H", "I", "J", "K", "L", "M",
      "N", "O", "P", "Q", "R", "S", "T", "U", "V", "W", "X", "Y", "Z",
      "\\", "_",
      "a", "b", "c", "d", "e", "f", "g", "h", "i", "j", "k", "l", "m",
      "n", "o", "p", "q", "r", "s", "t", "u", "v", "w", "x", "y", "z">>

Ord(c) == CHOOSE i \in 1..Len(Ascii) : Ascii[i] = c

UpperCase == <<"A", "B", "C", "D", "E", "F", "G", "H", "I", "J", "K", "L", "M",
               "N", "O", "P", "Q", "R", "S", "T", "U", "V", "W", "X", "Y", "Z">>
LowerCase == <<"a", "b", "c", "d", "e", "f", "g", "h", "i", "j", "k", "l", "m",
               "n", "o", "p", "q", "r", "s", "t", "u", "v", "w", "x", "y", "z">>

\* str.lower() on one character
LowerChar(c) ==
    IF \E i \in 1..Len(UpperCase) : UpperCase[i] = c
    THEN LowerCase[CHOOSE i \in 1..Len(UpperCase) : UpperCase[i] = c]
    ELSE c

\* str.lower()
Lower(s) == [i \in 1..Len(s) |-> LowerChar(s[i])]

\* Python's s < t on strings (and, part by part, on tuples of strings)
StrLess(s, t) ==
    \E k \in 1..(Len(t)) :
        /\ \A j \in 1..(k - 1) : j <= Len(s) /\ s[j] = t[j]
        /\ \/ Len(s) = k - 1
           \/ Len(s) >= k /\ Ord(s[k]) < Ord(t[k])

\* str.startswith(".")
StartsWithDot(s) == Len(s) > 0 /\ s[1] = "."

\* str.rfind("."), 1-based, 0 when there is none
RFindDot(s) ==
    IF \E i \in 1..Len(s) : s[i] = "."
    THEN CHOOSE i \in 1..Len(s) : s[i] = "." /\ \A j \in (i + 1)..Len(s) : s[j] # "."
    ELSE 0

\* PurePath.suffix of a name: from the last dot on, unless that dot is the
\* first or the last character
Suffix(name) ==
    LET i == RFindDot(name)
    IN  IF 1 < i /\ i < Len(name) THEN SubSeq(name, i, Len(name)) ELSE <<>>

-----------------------------------------------------------------------------
(* Global settings                                                           *)

CODE_EXTENSIONS ==
    { <<".", "p", "y">>, <<".", "j", "s">>, <<".", "t", "s">>,
      <<".", "t", "s", "x">>, <<".", "j", "s", "x">>, <<".", "c", "s">>,
      <<".", "c", "p", "p">>, <<".", "c">>, <<".", "h">>,
      <<".", "h", "p", "p">>, <<".", "j", "a", "v", "a">>, <<".", "k", "t">>,
      <<".", "s", "w", "i", "f", "t">>, <<".", "r", "b">>,
      <<".", "p", "h", "p">>, <<".", "g", "o">>, <<".", "r", "s">> }

EXPORT_FILENAME == <<"e", "x", "p", "o", "r", "t", ".", "t", "x", "t">>

UNCHECKED == "U+2610"
CHECKED == "U+2611"

IGNORE_DIRS ==
    { <<".", "g", "i", "t">>, <<".", "h", "g">>, <<".", "s", "v", "n">>,
      <<".", "v", "e", "n", "v">>, <<"v", "e", "n", "v">>,
      <<"_", "_", "p", "y", "c", "a", "c", "h", "e", "_", "_">>,
      <<"n", "o", "d", "e", "_", "m", "o", "d", "u", "l", "e", "s">> }

\* os.sep
os_sep == "/"

-----------------------------------------------------------------------------
(* Paths and the filesystem                                                  *)

\* Path.name
Name(p) == p[Len(p)]

\* Path.parent
Parent(p) == SubSeq(p, 1, Len(p) - 1)

IsPrefix(d, p) == Len(d) <= Len(p) /\ SubSeq(p, 1, Len(d)) = d

\* Path.is_dir(), Path.is_file()
is_dir(f, p) == p \in DOMAIN f /\ f[p].kind = "dir"
is_file(f, p) == p \in DOMAIN f /\ f[p].kind = "file"

\* Path.iterdir(): the immediate children, as a set (the order is the OS's)
iterdir(f, d) == { p \in DOMAIN f : Len(p) = Len(d) + 1 /\ Parent(p) = d }

\* Path.rglob("*"): everything below d, at any depth
rglob(f, d) == { p \in DOMAIN f : Len(p) > Len(d) /\ IsPrefix(d, p) }

\* Path.relative_to(d).parts
relative_parts(p, d) == SubSeq(p, Len(d) + 1, Len(p))

\* child.name.startswith(".") or child.name in IGNORE_DIRS
IsIgnoredName(name) == StartsWithDot(name) \/ name \in IGNORE_DIRS

\* collect_code_files_in_dir with p.suffix compared as it is, without lower()
collect_case_sensitive(f, directory) ==
    { p \in rglob(f, directory) :
        /\ is_file(f, p)
        /\ Suffix(Name(p)) \in CODE_EXTENSIONS
        /\ ~ \E i \in 1..Len(relative_parts(p, directory)) :
               \/ StartsWithDot(relative_parts(p, directory)[i])
               \/ relative_parts(p, directory)[i] \in IGNORE_DIRS }

\* collect_code_files_in_dir, as the set of the paths of the returned list
collect_code_files_in_dir(f, directory) ==
    { p \in rglob(f, directory) :
        /\ is_file(f, p)
        /\ Lower(Suffix(Name(p))) \in CODE_EXTENSIONS
        /\ ~ \E i \in 1..Len(relative_parts(p, directory)) :
               \/ StartsWithDot(relative_parts(p, directory)[i])
               \/ relative_parts(p, directory)[i] \in IGNORE_DIRS }

-----------------------------------------------------------------------------
(* The directory tree the runs work on                                       *)

\* How deep below "/" the filesystem of a run goes.
MaxDepth == 4

\* How many entries the directory trees handed to collect_code_files_in_dir have.
MaxEntries == 3

n_w == <<"w">>
n_sub == <<"S", "u", "b">>
n_txt == <<"n", ".", "t", "x", "t">>
n_git == <<".", "g", "i", "t">>
n_c_py == <<"c", ".", "p", "y">>
n_B_PY == <<"B", ".", "P", "Y">>
n_venv == <<"v", "e", "n", "v">>
n_v_py == <<"v", ".", "p", "y">>
n_deep == <<"d", "e", "e", "p">>
n_hg == <<".", "h", "g">>
n_i_py == <<"i", ".", "p", "y">>
n_e == <<"e">>
n_a_py == <<"a", ".", "p", "y">>
n_dot_py == <<".", "e", ".", "p", "y">>
n_e_py == <<"e", ".", "p", "y">>

Dir == [kind |-> "dir", data |-> <<>>]
File(data) == [kind |-> "file", data |-> data]

\* x=1\n
d_x == <<"x", "=", "1", "\n">>
\* a\r\nb\rc\n
d_mixed == <<"a", "\r", "\n", "b", "\r", "c", "\n">>

World ==
    ( <<n_w>>                              :> Dir
   @@ <<n_w, n_git>>                       :> Dir
   @@ <<n_w, n_git, n_c_py>>               :> File(d_x)
   @@ <<n_w, n_txt>>                       :> File(d_mixed)
   @@ <<n_w, n_sub>>                       :> Dir
   @@ <<n_w, n_sub, n_B_PY>>               :> File(d_mixed)
   @@ <<n_w, n_sub, n_venv>>               :> Dir
   @@ <<n_w, n_sub, n_venv, n_v_py>>       :> File(d_x)
   @@ <<n_w, n_sub, n_deep>>               :> Dir
   @@ <<n_w, n_sub, n_deep, n_hg>>         :> Dir
   @@ <<n_w, n_sub, n_deep, n_hg, n_i_py>> :> File(d_x)
   @@ <<n_w, n_e>>                         :> Dir
   @@ <<n_w, n_e, n_a_py>>                 :> File(d_x) )

\* A directory next to a file whose name is the directory's name followed by
\* a character that sorts before "/".
WorldOrder ==
    ( <<n_w>>                              :> Dir
   @@ <<n_w, n_e>>                         :> Dir
   @@ <<n_w, n_e, n_a_py>>                 :> File(d_x)
   @@ <<n_w, n_e_py>>                      :> File(d_mixed) )

Worlds == {World, WorldOrder}

\* The part of a tree that lies at most depth parts below "/".
Truncate(f, depth) ==
    [p \in { q \in DOMAIN f : Len(q) <= depth } |-> f[p]]

Directories(f) == { p \in DOMAIN f : f[p].kind = "dir" }

\* The element of a one-element set. A step of a loop is written
\* Only({ rest(x) : x \in {step} }) so that the value of step is computed once.
Only(S) == CHOOSE x \in S : TRUE

-----------------------------------------------------------------------------
(* Python's dict, insertion-ordered: a sequence of <<key, value>>            *)

DictKeys(d) == { d[i][1] : i \in 1..Len(d) }

\* d[k]
DictGet(d, k) == d[CHOOSE i \in 1..Len(d) : d[i][1] = k][2]

\* d[k] = v: an existing key keeps its place, a new key goes last
DictSet(d, k, v) ==
    IF k \in DictKeys(d)
    THEN [i \in 1..Len(d) |-> IF d[i][1] = k THEN <<k, v>> ELSE d[i]]
    ELSE Append(d, <<k, v>>)

\* d.pop(k, None)
DictPop(d, k) == SelectSeq(d, LAMBDA e : e[1] # k)

-----------------------------------------------------------------------------
(* ttk.Treeview and TreeSelectDialog._build_tree                             *)

\* f"{CHECKED if state else UNCHECKED} {name}"
ItemText(state, name) == <<IF state THEN CHECKED ELSE UNCHECKED, " ">> \o name

\* text.split(" ", 1)[1] if " " in text else text
NameOfText(text) ==
    IF \E i \in 1..Len(text) : text[i] = " "
    THEN LET i == CHOOSE j \in 1..Len(text) :
                    text[j] = " " /\ \A k \in 1..(j - 1) : text[k] # " "
         IN  SubSeq(text, i + 1, Len(text))
    ELSE text

\* The widget and the two dicts, as one value that the steps of a handler pass on.
Dialog ==
    [children |-> tree_children, text |-> tree_text, next |-> next_iid,
     sel |-> selected_items, paths |-> id_to_path]

\* self.tree.insert(parent, "end", text=text): the new item has the id w.next
TreeInsert(w, parent, text) ==
    [w EXCEPT !.children = [i \in DOMAIN w.children \cup {w.next} |->
                               IF i = w.next THEN <<>>
                               ELSE IF i = parent THEN Append(w.children[i], w.next)
                               ELSE w.children[i]],
              !.text = [i \in DOMAIN w.text \cup {w.next} |->
                               IF i = w.next THEN text ELSE w.text[i]],
              !.next = w.next + 1]

\* self.tree.delete(item) of an item without children
TreeDelete(w, item) ==
    [w EXCEPT !.children = [i \in DOMAIN w.children \ {item} |->
                               SelectSeq(w.children[i], LAMBDA c : c # item)],
              !.text = [i \in DOMAIN w.text \ {item} |-> w.text[i]]]

\* insert_node that gives the new node its parent's checked state
insert_node_inherit(w, f, parent_id, path) ==
    LET node_id == w.next
        w1 == TreeInsert(w, parent_id, ItemText(FALSE, Name(path)))
        w2 == [w1 EXCEPT !.sel = DictSet(w1.sel, node_id, DictGet(w.sel, parent_id)),
                         !.paths = [i \in DOMAIN w1.paths \cup {node_id} |->
                                       IF i = node_id THEN path ELSE w1.paths[i]]]
    IN  IF is_dir(f, path) THEN TreeInsert(w2, node_id, <<>>) ELSE w2

\* insert_node(parent_id, path)
insert_node(w, f, parent_id, path) ==
    LET node_id == w.next
        w1 == TreeInsert(w, parent_id, ItemText(FALSE, Name(path)))
        w2 == [w1 EXCEPT !.sel = DictSet(w1.sel, node_id, FALSE),
                         !.paths = [i \in DOMAIN w1.paths \cup {node_id} |->
                                       IF i = node_id THEN path ELSE w1.paths[i]]]
    IN  IF is_dir(f, path) THEN TreeInsert(w2, node_id, <<>>) ELSE w2

\* sorted(S, key=lambda p: p.name.lower()): every order of S by that key; a
\* tie between two names is broken by the order iterdir() happened to give.
SortedByLowerName(S) ==
    { s \in [1..Cardinality(S) -> S] :
        /\ \A i, j \in 1..Cardinality(S) : i # j => s[i] # s[j]
        /\ \A i, j \in 1..Cardinality(S) :
              i < j => ~ StrLess(Lower(Name(s[j])), Lower(Name(s[i]))) }

\* for child in listing: if not ignored: insert_node(item, child)
RECURSIVE InsertVisible(_, _, _, _)
InsertVisible(w, f, item, listing) ==
    IF listing = <<>> THEN w
    ELSE LET child == Head(listing)
         IN  IF IsIgnoredName(Name(child))
             THEN InsertVisible(w, f, item, Tail(listing))
             ELSE Only({ InsertVisible(w1, f, item, Tail(listing)) :
                            w1 \in {insert_node(w, f, item, child)} })

EmptyFn == [i \in {} |-> 0]

\* _build_tree, for one order `listing` of base_dir.iterdir()
build_tree(f, base, listing) ==
    LET w0 == [children |-> (0 :> <<>>), text |-> EmptyFn, next |-> 1,
               sel |-> <<>>, paths |-> EmptyFn]
        root_id == w0.next
        w1 == TreeInsert(w0, 0, ItemText(FALSE, Name(base)))
        w2 == [w1 EXCEPT !.sel = DictSet(w1.sel, root_id, FALSE),
                         !.paths = (root_id :> base)]
    IN  InsertVisible(w2, f, root_id, listing)

\* The placeholder test without `self.id_to_path.get(first) is None`
IsPlaceholder_any_leaf(w, first) == w.children[first] = <<>>

\* on_open: first is the placeholder child of a directory not yet listed
IsPlaceholder(w, first) ==
    first \notin DOMAIN w.paths /\ w.children[first] = <<>>

\* on_open without self.selected_items.pop(first, None)
on_open_keeps_key(w, f, item, listing) ==
    IF w.children[item] # <<>> /\ IsPlaceholder(w, w.children[item][1])
    THEN InsertVisible(TreeDelete(w, w.children[item][1]), f, item, listing)
    ELSE w

\* on_open without self.tree.delete(first)
on_open_keeps_dummy(w, f, item, listing) ==
    IF w.children[item] # <<>> /\ IsPlaceholder(w, w.children[item][1])
    THEN LET first == w.children[item][1]
             w2 == [w EXCEPT !.sel = DictPop(w.sel, first)]
         IN  InsertVisible(w2, f, item, listing)
    ELSE w

\* on_open, with self.tree.focus() = item, for one order `listing` of iterdir()
on_open(w, f, item, listing) ==
    IF w.children[item] # <<>> /\ IsPlaceholder(w, w.children[item][1])
    THEN LET first == w.children[item][1]
             w1 == TreeDelete(w, first)
             w2 == [w1 EXCEPT !.sel = DictPop(w1.sel, first)]
         IN  InsertVisible(w2, f, item, listing)
    ELSE w

\* whether on_open reaches path.iterdir()
on_open_lists(w, item) ==
    w.children[item] # <<>> /\ IsPlaceholder(w, w.children[item][1])

-----------------------------------------------------------------------------
(* Checkbox handling                                                         *)

\* _set_item_state without the loop over the children
set_item_state_flat(w, item_id, state) ==
    [w EXCEPT !.text[item_id] = ItemText(state, NameOfText(w.text[item_id])),
              !.sel = DictSet(w.sel, item_id, state)]

\* _set_item_state(item_id, state)
RECURSIVE set_item_state(_, _, _)
RECURSIVE set_children_state(_, _, _)
set_item_state(w, item_id, state) ==
    Only({ set_children_state(w1, w.children[item_id], state) :
              w1 \in {[w EXCEPT
                         !.text[item_id] = ItemText(state, NameOfText(w.text[item_id])),
                         !.sel = DictSet(w.sel, item_id, state)]} })

\* for child in self.tree.get_children(item_id): self._set_item_state(child, state)
set_children_state(w, cs, state) ==
    IF cs = <<>> THEN w
    ELSE Only({ set_children_state(w1, Tail(cs), state) :
                   w1 \in {set_item_state(w, Head(cs), state)} })

\* _toggle_item that also gives the new state to the parent of the item
toggle_item_up(w, item_id, new_state) ==
    LET cur == DictGet(w.sel, item_id)
        state == IF new_state = None THEN ~cur ELSE new_state[1]
        parents == { p \in DOMAIN w.paths :
                       \E i \in 1..Len(w.children[p]) : w.children[p][i] = item_id }
    IN  Only({ IF parents = {} THEN w1
               ELSE [w1 EXCEPT
                       !.text[Only(parents)] =
                           ItemText(state, NameOfText(w1.text[Only(parents)])),
                       !.sel = DictSet(w1.sel, Only(parents), state)] :
               w1 \in {set_item_state(w, item_id, state)} })

\* _toggle_item(item_id, new_state); new_state is None, Some(TRUE) or Some(FALSE)
toggle_item(w, item_id, new_state) ==
    LET cur == DictGet(w.sel, item_id)
    IN  set_item_state(w, item_id,
                       IF new_state = None THEN ~cur ELSE new_state[1])

\* The loop of _select_all / _deselect_all over the live dict: the iterator
\* raises RuntimeError when the dict's size differs from the size at the
\* start of the loop, checked before every step.
RECURSIVE set_all_loop(_, _, _, _)
set_all_loop(w, i, size, state) ==
    IF Len(w.sel) # size THEN [w |-> w, raised |-> TRUE, steps |-> i - 1]
    ELSE IF i > size THEN [w |-> w, raised |-> FALSE, steps |-> i - 1]
    ELSE Only({ set_all_loop(w1, i + 1, size, state) :
                   w1 \in {set_item_state(w, w.sel[i][1], state)} })

\* The loop of _select_all / _deselect_all started at the second entry
set_all_skip_first(w, state) == set_all_loop(w, 2, Len(w.sel), state)

\* _select_all (state = TRUE), _deselect_all (state = FALSE)
set_all(w, state) == set_all_loop(w, 1, Len(w.sel), state)

\* _on_ok: the lists dirs and files
RECURSIVE on_ok_loop(_, _, _, _)
on_ok_loop(w, f, i, acc) ==
    IF i > Len(w.sel) THEN acc
    ELSE LET iid == w.sel[i][1]
             checked == w.sel[i][2]
         IN  IF ~checked THEN on_ok_loop(w, f, i + 1, acc)
             ELSE IF iid \notin DOMAIN w.paths THEN on_ok_loop(w, f, i + 1, acc)
             ELSE IF is_dir(f, w.paths[iid])
             THEN on_ok_loop(w, f, i + 1,
                             [acc EXCEPT !.dirs = Append(@, w.paths[iid])])
             ELSE on_ok_loop(w, f, i + 1,
                             [acc EXCEPT !.files = Append(@, w.paths[iid])])

\* _on_ok with (files if path.is_dir() else dirs)
on_ok_swapped(w, f) ==
    [dirs |-> on_ok_loop(w, f, 1, [dirs |-> <<>>, files |-> <<>>]).files,
     files |-> on_ok_loop(w, f, 1, [dirs |-> <<>>, files |-> <<>>]).dirs]

on_ok(w, f) == on_ok_loop(w, f, 1, [dirs |-> <<>>, files |-> <<>>])

-----------------------------------------------------------------------------
(* Reader/writer and the rest of main                                        *)

\* str.replace("\r\n", "\n")
RECURSIVE ReplaceCRLF(_)
ReplaceCRLF(text) ==
    IF text = <<>> THEN <<>>
    ELSE IF Len(text) >= 2 /\ text[1] = "\r" /\ text[2] = "\n"
    THEN <<"\n">> \o ReplaceCRLF(SubSeq(text, 3, Len(text)))
    ELSE <<text[1]>> \o ReplaceCRLF(Tail(text))

\* str.replace(old, new) for single characters
ReplaceChar(text, old, new) ==
    [i \in 1..Len(text) |-> IF text[i] = old THEN new ELSE text[i]]

\* normalize_newlines as text.replace("\r", "\n").replace("\r\n", "\n")
normalize_cr_first(text) == ReplaceCRLF(ReplaceChar(text, "\r", "\n"))

\* normalize_newlines
normalize_newlines(text) == ReplaceChar(ReplaceCRLF(text), "\r", "\n")

\* f.read() of a file opened in text mode with newline=None: "\r\n" and a
\* lone "\r" are read as "\n"
RECURSIVE universal_newlines(_)
universal_newlines(data) ==
    IF data = <<>> THEN <<>>
    ELSE IF data[1] = "\r"
    THEN <<"\n">> \o universal_newlines(
             IF Len(data) >= 2 /\ data[2] = "\n"
             THEN SubSeq(data, 3, Len(data)) ELSE Tail(data))
    ELSE <<data[1]>> \o universal_newlines(Tail(data))

\* read_file
read_file(f, path) == normalize_newlines(universal_newlines(f[path].data))

\* sep.join(parts)
RECURSIVE Join(_, _)
Join(parts, sep) ==
    IF parts = <<>> THEN <<>>
    ELSE IF Len(parts) = 1 THEN parts[1]
    ELSE parts[1] \o <<sep>> \o Join(Tail(parts), sep)

\* Path.as_posix() of an absolute path
as_posix(path) == <<"/">> \o Join(path, "/")

\* relativize
relativize(path, base) ==
    LET rel == IF IsPrefix(base, path)
               THEN Join(relative_parts(path, base), "/")
               ELSE as_posix(path)
    IN  ReplaceChar(rel, "/", os_sep)

\* p < q on paths: their parts compared as tuples of strings
PathLess(p, q) ==
    \E k \in 1..Len(q) :
        /\ \A j \in 1..(k - 1) : j <= Len(p) /\ p[j] = q[j]
        /\ \/ Len(p) = k - 1
           \/ Len(p) >= k /\ StrLess(p[k], q[k])

\* sorted(S, key=str): the paths ordered as the strings of their as_posix()
RECURSIVE sorted_as_text(_)
sorted_as_text(S) ==
    IF S = {} THEN <<>>
    ELSE LET m == CHOOSE p \in S :
                      \A q \in S \ {p} : StrLess(as_posix(p), as_posix(q))
         IN  <<m>> \o sorted_as_text(S \ {m})

\* sorted(S) for a set of paths
RECURSIVE sorted(_)
sorted(S) ==
    IF S = {} THEN <<>>
    ELSE LET m == CHOOSE p \in S : \A q \in S \ {p} : PathLess(p, q)
         IN  <<m>> \o sorted(S \ {m})

s_Datei == <<"D", "a", "t", "e", "i", ":", " ", "\"">>
s_Code == <<"C", "o", "d", "e", ":", " ", "\"", "\"", "\"", "\\", "\n">>
s_End == <<"\n", "\"", "\"", "\"", "\n", "\n">>

\* write_export whose last write is '\n"""\n', without the empty line
RECURSIVE write_export_no_blank(_)
write_export_no_blank(es) ==
    IF es = <<>> THEN <<>>
    ELSE (s_Datei \o Head(es)[1] \o <<"\"", "\n">> \o s_Code \o Head(es)[2]
             \o <<"\n", "\"", "\"", "\"", "\n">>)
         \o write_export_no_blank(Tail(es))

\* write_export: the text written to base_dir/export.txt
RECURSIVE write_export(_)
write_export(es) ==
    IF es = <<>> THEN <<>>
    ELSE (s_Datei \o Head(es)[1] \o <<"\"", "\n">> \o s_Code \o Head(es)[2] \o s_End)
         \o write_export(Tail(es))

\* The loop over sel_dirs left after its first directory
CollectDirs_first_only(f, sel_dirs) ==
    IF sel_dirs = <<>> THEN {}
    ELSE collect_code_files_in_dir(f, Head(sel_dirs))

\* for d in sel_dirs: files_to_export.update(collect_code_files_in_dir(d))
RECURSIVE CollectDirs(_, _)
CollectDirs(f, sel_dirs) ==
    IF sel_dirs = <<>> THEN {}
    ELSE collect_code_files_in_dir(f, Head(sel_dirs)) \cup CollectDirs(f, Tail(sel_dirs))

\* for f in sel_files: files_to_export.add(f), without the test of the suffix
CollectFiles_unfiltered(sel_files) == { sel_files[i] : i \in 1..Len(sel_files) }

\* for f in sel_files: if f.suffix.lower() in CODE_EXTENSIONS: files_to_export.add(f)
CollectFiles(sel_files) ==
    { sel_files[i] : i \in { j \in 1..Len(sel_files) :
                                Lower(Suffix(Name(sel_files[j]))) \in CODE_EXTENSIONS } }

RUNNING == "running"
MSG_NO_BASE == "Abbruch: kein Basisordner gewaehlt."
MSG_CANCELLED == "Abbruch durch Benutzer."
MSG_NO_SELECTION == "Keine Ordner/Dateien ausgewaehlt."
MSG_NO_MATCH == "Keine passenden Code-Dateien gefunden."
MSG_EXPORTED == "Dateien exportiert"

\* run_selection_dialog that returns two empty lists for a cancelled dialog
run_selection_dialog_empty(dirs, files) ==
    IF dirs = None THEN <<<<>>, <<>>>> ELSE <<dirs[1], files[1]>>

\* main without the test for an empty selection
no_selection_unchecked(sel_dirs, sel_files) == FALSE

\* run_selection_dialog: what it returns once the dialog is closed
run_selection_dialog(dirs, files) ==
    IF dirs = None THEN None ELSE <<dirs[1], files[1]>>

\* not sel_dirs and not sel_files
no_selection(sel_dirs, sel_files) == sel_dirs = <<>> /\ sel_files = <<>>

\* len(files_to_export), the number in "exportiert: N Dateien"
reported_count(fte) == Cardinality(fte)

\* main from run_selection_dialog's return on: what the run leaves behind
main_export(f, base, sel) ==
    LET nothing == [files_to_export |-> {}, entries |-> <<>>, export_txt |-> None]
    IN  IF sel = None
        THEN nothing @@ [exit_msg |-> MSG_CANCELLED]
        ELSE IF no_selection(sel[1], sel[2])
        THEN nothing @@ [exit_msg |-> MSG_NO_SELECTION]
        ELSE LET fte == CollectDirs(f, sel[1]) \cup CollectFiles(sel[2])
                 order == sorted(fte)
                 es == [i \in 1..Len(order) |->
                          <<relativize(order[i], base), read_file(f, order[i])>>]
             IN  IF fte = {}
                 THEN nothing @@ [exit_msg |-> MSG_NO_MATCH]
                 ELSE [files_to_export |-> fte, entries |-> es,
                       export_txt |-> Some(write_export(es)),
                       exit_msg |-> MSG_EXPORTED]

-----------------------------------------------------------------------------
(* The run of main: folder dialog, selection dialog, export                  *)

Last(op, item, state, raised) ==
    [op |-> op, item |-> item, state |-> state, raised |-> raised,
     listing |-> FALSE, dir |-> <<>>, ret |-> <<>>]

NoDialog ==
    /\ tree_children = (0 :> <<>>)
    /\ tree_text = EmptyFn
    /\ next_iid = 1
    /\ selected_items = <<>>
    /\ id_to_path = EmptyFn
    /\ result_dirs = None
    /\ result_files = None

NoExport ==
    /\ files_to_export = {}
    /\ entries = <<>>
    /\ export_txt = None
    /\ exit_msg = RUNNING

Init ==
    /\ fs \in { Truncate(f, MaxDepth) : f \in Worlds }
    /\ pc = "start"
    /\ base_dir = <<>>
    /\ NoDialog
    /\ NoExport
    /\ listed = [d \in Directories(fs) |-> 0]
    /\ collected = {}
    /\ last = Last("init", 0, None, FALSE)

\* The dialog's state after a handler: the widget and the two dicts.
SetDialog(w) ==
    /\ tree_children' = w.children
    /\ tree_text' = w.text
    /\ next_iid' = w.next
    /\ selected_items' = w.sel
    /\ id_to_path' = w.paths

\* main: askdirectory returned nothing
NoFolder ==
    /\ pc = "start"
    /\ pc' = "exit"
    /\ exit_msg' = MSG_NO_BASE
    /\ last' = Last("no_folder", 0, None, FALSE)
    /\ UNCHANGED <<fs, base_dir, tree_children, tree_text, next_iid, selected_items,
                   id_to_path, result_dirs, result_files, listed, files_to_export,
                   entries, export_txt, collected>>

\* main: askdirectory returned folder; TreeSelectDialog.__init__ up to wait_window
ChooseFolder(folder) ==
    /\ pc = "start"
    /\ folder \in Directories(fs)
    /\ \E listing \in SortedByLowerName(iterdir(fs, folder)) :
          SetDialog(build_tree(fs, folder, listing))
    /\ base_dir' = folder
    /\ listed' = [listed EXCEPT ![folder] = @ + 1]
    /\ result_dirs' = None
    /\ result_files' = None
    /\ pc' = "dialog"
    /\ last' = [Last("build", 1, None, FALSE) EXCEPT !.listing = TRUE]
    /\ UNCHANGED <<fs, files_to_export, entries, export_txt, exit_msg, collected>>

\* <<TreeviewOpen>> with the focus on item. Only rows with a path are shown:
\* a placeholder is deleted by the handler that opens its parent.
OnOpen(item) ==
    /\ pc = "dialog"
    /\ item \in DOMAIN id_to_path
    /\ \E listing \in (IF on_open_lists(Dialog, item)
                       THEN SortedByLowerName(iterdir(fs, id_to_path[item]))
                       ELSE {<<>>}) :
          SetDialog(on_open(Dialog, fs, item, listing))
    /\ listed' = IF on_open_lists(Dialog, item)
                 THEN [listed EXCEPT ![id_to_path[item]] = @ + 1]
                 ELSE listed
    /\ last' = [Last("open", item, None, FALSE) EXCEPT
                    !.listing = on_open_lists(Dialog, item)]
    /\ UNCHANGED <<fs, pc, base_dir, result_dirs, result_files, files_to_export,
                   entries, export_txt, exit_msg, collected>>

\* _on_click on the text of row iid
OnClick(iid) ==
    /\ pc = "dialog"
    /\ iid \in DOMAIN id_to_path
    /\ SetDialog(toggle_item(Dialog, iid, None))
    /\ last' = Last("click", iid, None, FALSE)
    /\ UNCHANGED <<fs, pc, base_dir, result_dirs, result_files, listed,
                   files_to_export, entries, export_txt, exit_msg, collected>>

\* The button "Alles markieren"
SelectAll ==
    /\ pc = "dialog"
    /\ SetDialog(set_all(Dialog, TRUE).w)
    /\ last' = Last("select_all", 0, Some(TRUE), set_all(Dialog, TRUE).raised)
    /\ UNCHANGED <<fs, pc, base_dir, result_dirs, result_files, listed,
                   files_to_export, entries, export_txt, exit_msg, collected>>

\* The button "Nichts markieren"
DeselectAll ==
    /\ pc = "dialog"
    /\ SetDialog(set_all(Dialog, FALSE).w)
    /\ last' = Last("deselect_all", 0, Some(FALSE), set_all(Dialog, FALSE).raised)
    /\ UNCHANGED <<fs, pc, base_dir, result_dirs, result_files, listed,
                   files_to_export, entries, export_txt, exit_msg, collected>>

\* The button "OK": _on_ok, which ends wait_window. destroy() leaves the two
\* dicts of the dialog object as they are; the widget is not used any more.
OnOk ==
    /\ pc = "dialog"
    /\ result_dirs' = Some(on_ok(Dialog, fs).dirs)
    /\ result_files' = Some(on_ok(Dialog, fs).files)
    /\ pc' = "closed"
    /\ last' = Last("ok", 0, None, FALSE)
    /\ UNCHANGED <<fs, base_dir, tree_children, tree_text, next_iid, selected_items,
                   id_to_path, listed, files_to_export, entries, export_txt,
                   exit_msg, collected>>

\* The button "Abbrechen" or closing the window: _on_cancel
OnCancel ==
    /\ pc = "dialog"
    /\ pc' = "closed"
    /\ last' = Last("cancel", 0, None, FALSE)
    /\ UNCHANGED <<fs, base_dir, tree_children, tree_text, next_iid, selected_items,
                   id_to_path, result_dirs, result_files, listed, files_to_export,
                   entries, export_txt, exit_msg, collected>>

\* main from the return of run_selection_dialog to the end of the run
MainExport ==
    /\ pc = "closed"
    /\ LET r == main_export(fs, base_dir,
                            run_selection_dialog(result_dirs, result_files))
       IN  /\ files_to_export' = r.files_to_export
           /\ entries' = r.entries
           /\ export_txt' = r.export_txt
           /\ exit_msg' = r.exit_msg
           /\ fs' = IF r.export_txt = None THEN fs
                    ELSE [p \in DOMAIN fs \cup {Append(base_dir, EXPORT_FILENAME)} |->
                            IF p = Append(base_dir, EXPORT_FILENAME)
                            THEN File(r.export_txt[1]) ELSE fs[p]]
    /\ pc' = "exit"
    /\ last' = Last("main", 0, None, FALSE)
    /\ UNCHANGED <<base_dir, tree_children, tree_text, next_iid, selected_items,
                   id_to_path, result_dirs, result_files, listed, collected>>

Next ==
    \/ NoFolder
    \/ \E folder \in Directories(fs) : ChooseFolder(folder)
    \/ \E item \in DOMAIN id_to_path : OnOpen(item)
    \/ \E iid \in DOMAIN id_to_path : OnClick(iid)
    \/ SelectAll
    \/ DeselectAll
    \/ OnOk
    \/ OnCancel
    \/ MainExport

Spec == Init /\ [][Next]_vars

-----------------------------------------------------------------------------
(* collect_code_files_in_dir on the directory trees of at most MaxEntries    *)
(* entries below /w, built entry by entry from the names of NamePool         *)

NamePool == {n_sub, n_venv, n_dot_py, n_a_py, n_B_PY, n_txt}

InitCollect ==
    /\ fs = (<<n_w>> :> Dir)
    /\ pc = "collect"
    /\ base_dir = <<>>
    /\ NoDialog
    /\ NoExport
    /\ listed = <<>>
    /\ collected = {}
    /\ last = Last("init", 0, None, FALSE)

\* A file or a directory called name appears in the directory parent.
Create(parent, name, entry) ==
    /\ Cardinality(DOMAIN fs) - 1 < MaxEntries
    /\ parent \in Directories(fs)
    /\ Append(parent, name) \notin DOMAIN fs
    /\ fs' = [p \in DOMAIN fs \cup {Append(parent, name)} |->
                IF p = Append(parent, name) THEN entry ELSE fs[p]]
    /\ last' = Last("create", 0, None, FALSE)
    /\ UNCHANGED <<pc, base_dir, tree_children, tree_text, next_iid, selected_items,
                   id_to_path, result_dirs, result_files, listed, files_to_export,
                   entries, export_txt, exit_msg, collected>>

\* collect_code_files_in_dir(directory)
Collect(directory) ==
    /\ directory \in Directories(fs)
    /\ collected' = collect_code_files_in_dir(fs, directory)
    /\ last' = [Last("collect", 0, None, FALSE) EXCEPT !.dir = directory]
    /\ UNCHANGED <<fs, pc, base_dir, tree_children, tree_text, next_iid,
                   selected_items, id_to_path, result_dirs, result_files, listed,
                   files_to_export, entries, export_txt, exit_msg>>

NextCollect ==
    \/ \E parent \in Directories(fs), name \in NamePool, entry \in {Dir, File(d_x)} :
          Create(parent, name, entry)
    \/ \E directory \in Directories(fs) : Collect(directory)

SpecCollect == InitCollect /\ [][NextCollect]_vars

-----------------------------------------------------------------------------
(* write_export on the lists of at most MaxBlocks entries, built entry by    *)
(* entry from the relative paths of RelPool and the contents of CodePool     *)

\* How many entries the lists handed to write_export have.
MaxBlocks == 2

RelPool == { n_a_py, relativize(<<n_w, n_sub, n_B_PY>>, <<n_w>>) }

\* Contents as read_file returns them: empty, with and without a newline at
\* the end, of several lines, and one that holds a quote.
CodePool ==
    { <<>>, read_file(World, <<n_w, n_e, n_a_py>>), read_file(World, <<n_w, n_txt>>),
      <<"x", "=", "\"">> }

InitWrite ==
    /\ fs = (<<n_w>> :> Dir)
    /\ pc = "write"
    /\ base_dir = <<n_w>>
    /\ NoDialog
    /\ NoExport
    /\ listed = <<>>
    /\ collected = {}
    /\ last = Last("init", 0, None, FALSE)

\* The caller's list of entries gets one more pair (rel, code).
AddEntry(rel, code) ==
    /\ Len(entries) < MaxBlocks
    /\ entries' = Append(entries, <<rel, code>>)
    /\ last' = Last("add", 0, None, FALSE)
    /\ UNCHANGED <<fs, pc, base_dir, tree_children, tree_text, next_iid,
                   selected_items, id_to_path, result_dirs, result_files, listed,
                   files_to_export, export_txt, exit_msg, collected>>

\* write_export(base_dir, entries): open(out_path, "w") replaces the file
WriteExport ==
    /\ export_txt' = Some(write_export(entries))
    /\ fs' = [p \in DOMAIN fs \cup {Append(base_dir, EXPORT_FILENAME)} |->
                IF p = Append(base_dir, EXPORT_FILENAME)
                THEN File(write_export(entries)) ELSE fs[p]]
    /\ last' = Last("write", 0, None, FALSE)
    /\ UNCHANGED <<pc, base_dir, tree_children, tree_text, next_iid, selected_items,
                   id_to_path, result_dirs, result_files, listed, files_to_export,
                   entries, exit_msg, collected>>

NextWrite ==
    \/ \E rel \in RelPool, code \in CodePool : AddEntry(rel, code)
    \/ WriteExport

SpecWrite == InitWrite /\ [][NextWrite]_vars

-----------------------------------------------------------------------------
(* normalize_newlines and read_file on the texts of at most MaxText          *)
(* characters over TextChars, written character by character to /w/a.py,     *)
(* and on the text a\r\nb\rc\n                                               *)

\* How long the texts handed to normalize_newlines get.
MaxText == 4

TextChars == {"a", "\r", "\n"}

TextFile == <<n_w, n_a_py>>

InitNorm ==
    /\ fs \in { (<<n_w>> :> Dir) @@ (TextFile :> File(data)) : data \in {<<>>, d_mixed} }
    /\ pc = "norm"
    /\ base_dir = <<n_w>>
    /\ NoDialog
    /\ NoExport
    /\ listed = <<>>
    /\ collected = {}
    /\ last = Last("init", 0, None, FALSE)

\* One more character is written to the end of the file.
AppendChar(c) ==
    /\ Len(fs[TextFile].data) < MaxText
    /\ fs' = [fs EXCEPT ![TextFile].data = Append(@, c)]
    /\ last' = Last("append", 0, None, FALSE)
    /\ UNCHANGED <<pc, base_dir, tree_children, tree_text, next_iid, selected_items,
                   id_to_path, result_dirs, result_files, listed, files_to_export,
                   entries, export_txt, exit_msg, collected>>

\* normalize_newlines(text) on the characters of the file as they are
Normalize ==
    /\ last' = [Last("normalize", 0, None, FALSE) EXCEPT
                    !.ret = normalize_newlines(fs[TextFile].data)]
    /\ UNCHANGED <<fs, pc, base_dir, tree_children, tree_text, next_iid,
                   selected_items, id_to_path, result_dirs, result_files, listed,
                   files_to_export, entries, export_txt, exit_msg, collected>>

\* read_file(path)
ReadFile ==
    /\ last' = [Last("read", 0, None, FALSE) EXCEPT !.ret = read_file(fs, TextFile)]
    /\ UNCHANGED <<fs, pc, base_dir, tree_children, tree_text, next_iid,
                   selected_items, id_to_path, result_dirs, result_files, listed,
                   files_to_export, entries, export_txt, exit_msg, collected>>

NextNorm ==
    \/ \E c \in TextChars : AppendChar(c)
    \/ Normalize
    \/ ReadFile

SpecNorm == InitNorm /\ [][NextNorm]_vars

-----------------------------------------------------------------------------
(* The claims                                                                *)

\* The nodes of the tree: the items that stand for a file or a directory.
Nodes == DOMAIN id_to_path

IsChecked(iid) == DictGet(selected_items, iid)

\* The directory of node iid has been listed (its children are nodes).
IsLoaded(iid) == is_dir(fs, id_to_path[iid]) /\ listed[id_to_path[iid]] >= 1

\* Node d lies in the subtree of node n: its path is n's path or below it.
InSubtree(paths, n, d) == IsPrefix(paths[n], paths[d])

\* How often x occurs in the sequence s.
Count(s, x) == Cardinality({ i \in 1..Len(s) : s[i] = x })

\* The run wrote a block for the file path into export.txt.
HasBlock(path) ==
    \E i \in 1..Len(entries) : entries[i][1] = relativize(path, base_dir)

\* C1: after confirm and export, no file whose node exists and is unchecked
\* at the moment of confirm has a block in export.txt.
C1_OnlyCheckedFilesExported ==
    (pc = "exit" /\ export_txt # None) =>
        \A iid \in Nodes :
            (is_file(fs, id_to_path[iid]) /\ ~IsChecked(iid))
                => ~HasBlock(id_to_path[iid])

\* C2: in every state of the dialog, toggling any node n to V (the given
\* state, or the negation of n's state when none is given) leaves n and every
\* node in n's subtree, at any depth, with checked = V.
C2_ToggleCascades ==
    pc = "dialog" =>
        \A n \in Nodes : \A new_state \in {None, Some(TRUE), Some(FALSE)} :
            LET V == IF new_state = None THEN ~IsChecked(n) ELSE new_state[1]
            IN  \A after \in {toggle_item(Dialog, n, new_state)} : \A d \in Nodes :
                    InSubtree(id_to_path, n, d) => DictGet(after.sel, d) = V

\* A click on a directory with a loaded grandchild has checked its whole subtree.
C2_Witness ==
    /\ pc = "dialog"
    /\ last.op = "click"
    /\ IsChecked(last.item)
    /\ \E d \in Nodes :
          /\ InSubtree(id_to_path, last.item, d)
          /\ Len(id_to_path[d]) = Len(id_to_path[last.item]) + 2
    /\ \A d \in Nodes : InSubtree(id_to_path, last.item, d) => IsChecked(d)

\* C3: confirm returns exactly the nodes that are checked at that moment:
\* the path of each exactly once, in result_dirs if it is a directory and in
\* result_files otherwise, and nothing else.
C3_HarvestExact ==
    (pc = "closed" /\ last.op = "ok") =>
        /\ \A iid \in Nodes :
              LET path == id_to_path[iid]
                  want == IF IsChecked(iid) THEN 1 ELSE 0
              IN  /\ Count(result_dirs[1], path) = IF is_dir(fs, path) THEN want ELSE 0
                  /\ Count(result_files[1], path) = IF is_dir(fs, path) THEN 0 ELSE want
        /\ \A i \in 1..Len(result_dirs[1]) :
              \E iid \in Nodes : id_to_path[iid] = result_dirs[1][i]
        /\ \A i \in 1..Len(result_files[1]) :
              \E iid \in Nodes : id_to_path[iid] = result_files[1][i]
        /\ \A i \in 1..Len(result_dirs[1]) : \A j \in 1..Len(result_files[1]) :
              result_dirs[1][i] # result_files[1][j]

\* Confirm after select-all on the fully expanded tree of /w returned all of
\* its seven nodes.
C3_Witness ==
    /\ pc = "closed"
    /\ last.op = "ok"
    /\ base_dir = <<n_w>>
    /\ \A iid \in Nodes : is_dir(fs, id_to_path[iid]) => IsLoaded(iid)
    /\ \A iid \in Nodes : IsChecked(iid)
    /\ Len(result_dirs[1]) + Len(result_files[1]) = Cardinality(Nodes)
    /\ Len(result_dirs[1]) >= 3
    /\ Len(result_files[1]) >= 3

\* C4: every node is created unchecked, at build and at expand, and the
\* expand that lists a directory leaves that directory's own state as it was
\* (a checked directory stays checked, its new children are unchecked).
C4_NodesStartUnchecked ==
    [][ /\ \A iid \in DOMAIN id_to_path' \ DOMAIN id_to_path :
              DictGet(selected_items', iid) = FALSE
        /\ (last'.op = "open" /\ last'.listing) =>
              /\ DictGet(selected_items', last'.item) = IsChecked(last'.item)
              /\ \A i \in 1..Len(tree_children'[last'.item]) :
                    /\ tree_children'[last'.item][i] \in DOMAIN id_to_path'
                    /\ tree_children'[last'.item][i] \notin DOMAIN id_to_path
                    /\ DictGet(selected_items', tree_children'[last'.item][i]) = FALSE
      ]_vars

\* A directory that was checked while unloaded has just been listed: it is
\* still checked and has children, all unchecked.
C4_Witness ==
    /\ pc = "dialog"
    /\ last.op = "open"
    /\ last.listing
    /\ IsChecked(last.item)
    /\ tree_children[last.item] # <<>>
    /\ \A i \in 1..Len(tree_children[last.item]) :
          /\ tree_children[last.item][i] \in Nodes
          /\ ~IsChecked(tree_children[last.item][i])

\* Each existing node toggled to state, one after the other.
RECURSIVE ToggleEach(_, _, _)
ToggleEach(w, nodes, state) ==
    IF nodes = {} THEN w
    ELSE LET n == CHOOSE m \in nodes : \A k \in nodes : m <= k
         IN  Only({ ToggleEach(w1, nodes \ {n}, state) :
                       w1 \in {toggle_item(w, n, state)} })

\* C5: in every state of the dialog, select-all leaves every existing node
\* checked and deselect-all leaves every existing node unchecked, and the
\* dialog is then in the state that toggling each existing node to that state
\* gives.
C5_SelectAllChecksAll ==
    pc = "dialog" =>
        /\ \A after \in {set_all(Dialog, TRUE).w} :
              /\ \A iid \in Nodes : DictGet(after.sel, iid) = TRUE
              /\ after = ToggleEach(Dialog, Nodes, Some(TRUE))
        /\ \A after \in {set_all(Dialog, FALSE).w} :
              /\ \A iid \in Nodes : DictGet(after.sel, iid) = FALSE
              /\ after = ToggleEach(Dialog, Nodes, Some(FALSE))

\* Select-all has run on a tree with a loaded and an unloaded directory, its
\* loop was ended by RuntimeError, and every node is checked.
C5_Witness ==
    /\ pc = "dialog"
    /\ last.op = "select_all"
    /\ last.raised
    /\ \E iid \in Nodes : IsLoaded(iid) /\ iid # 1
    /\ \E iid \in Nodes : is_dir(fs, id_to_path[iid]) /\ ~IsLoaded(iid)
    /\ \A iid \in Nodes : IsChecked(iid)

\* C6: expanding a file node or a directory that was listed before (also one
\* with no visible children, also the root) changes nothing in the tree and
\* in the checked states, and no directory is ever listed twice.
C6_ExpandIdempotent ==
    [][ /\ \A d \in DOMAIN listed' : listed'[d] <= 1
        /\ (/\ last'.op = "open"
            /\ \/ is_file(fs, id_to_path[last'.item])
               \/ IsLoaded(last'.item))
           => /\ tree_children' = tree_children
              /\ tree_text' = tree_text
              /\ selected_items' = selected_items
              /\ id_to_path' = id_to_path
              /\ listed' = listed
      ]_vars

\* A directory that was listed before and has no visible children has been
\* expanded again.
C6_Witness ==
    /\ pc = "dialog"
    /\ last.op = "open"
    /\ ~last.listing
    /\ last.item # 1
    /\ IsLoaded(last.item)
    /\ tree_children[last.item] = <<>>

\* The extension of name, compared without regard to case, is in the allow-list:
\* name ends with one of the extensions and has something before it.
HasCodeExtension(name) ==
    \E ext \in CODE_EXTENSIONS :
        /\ Len(name) > Len(ext)
        /\ Lower(SubSeq(name, Len(name) - Len(ext) + 1, Len(name))) = ext

\* C7: cancelling or closing the dialog, whatever is checked, leaves the
\* selection result absent, and the run then ends as a cancellation by the
\* user without writing export.txt.
C7_CancelYieldsNothing ==
    [][ /\ last'.op = "cancel" =>
              (result_dirs' = None /\ result_files' = None)
        /\ (last.op = "cancel" /\ last'.op = "main") =>
              /\ run_selection_dialog(result_dirs, result_files) = None
              /\ exit_msg' = MSG_CANCELLED
              /\ export_txt' = None
              /\ fs' = fs
      ]_vars

\* The dialog was cancelled with something checked after an expand, and the
\* run has ended as a cancellation.
C7_Witness ==
    /\ pc = "exit"
    /\ last.op = "main"
    /\ exit_msg = MSG_CANCELLED
    /\ export_txt = None
    /\ result_dirs = None
    /\ \E iid \in Nodes : IsChecked(iid) /\ Len(id_to_path[iid]) > Len(base_dir) + 1

\* C8: after a confirm with no node checked the run ends with the
\* no-selection message and nothing is written; and whenever export.txt is
\* written, the selection was not empty and neither was the set of files.
C8_NoSelectionNoWrite ==
    [][ /\ (last.op = "ok" /\ last'.op = "main" /\ \A iid \in Nodes : ~IsChecked(iid)) =>
              /\ exit_msg' = MSG_NO_SELECTION
              /\ export_txt' = None
              /\ fs' = fs
        /\ (export_txt' # None \/ fs' # fs) =>
              /\ last.op = "ok"
              /\ last'.op = "main"
              /\ \E iid \in Nodes : IsChecked(iid)
              /\ files_to_export' # {}
              /\ exit_msg' = MSG_EXPORTED
      ]_vars

\* A confirm with nothing checked, after some clicks, has ended the run with
\* the no-selection message.
C8_Witness ==
    /\ pc = "exit"
    /\ last.op = "main"
    /\ result_dirs = Some(<<>>)
    /\ result_files = Some(<<>>)
    /\ exit_msg = MSG_NO_SELECTION
    /\ export_txt = None
    /\ Len(selected_items) > Cardinality(Nodes)

\* C9: a checked file without an exportable extension is not in the export
\* set; and when every checked file is such a file and no checked directory
\* holds an exportable file, the run ends with the no-matching-files message
\* and export.txt is not written.
C9_NonExportableDropped ==
    [][ (last.op = "ok" /\ last'.op = "main") =>
          /\ \A iid \in Nodes :
                (/\ IsChecked(iid)
                 /\ is_file(fs, id_to_path[iid])
                 /\ ~HasCodeExtension(Name(id_to_path[iid])))
                    => id_to_path[iid] \notin files_to_export'
          /\ (/\ \E iid \in Nodes : IsChecked(iid)
              /\ \A iid \in Nodes : IsChecked(iid) =>
                    IF is_file(fs, id_to_path[iid])
                    THEN ~HasCodeExtension(Name(id_to_path[iid]))
                    ELSE \A p \in DOMAIN fs :
                            (IsPrefix(id_to_path[iid], p) /\ is_file(fs, p)
                                /\ HasCodeExtension(Name(p)))
                              => \E k \in (Len(id_to_path[iid]) + 1)..Len(p) :
                                    IsIgnoredName(p[k]))
             => /\ exit_msg' = MSG_NO_MATCH
                /\ files_to_export' = {}
                /\ export_txt' = None
                /\ fs' = fs
      ]_vars

\* Only n.txt was checked at confirm, and the run has ended with the
\* no-matching-files message.
C9_Witness ==
    /\ pc = "exit"
    /\ last.op = "main"
    /\ result_dirs = Some(<<>>)
    /\ result_files = Some(<< <<n_w, n_txt>> >>)
    /\ exit_msg = MSG_NO_MATCH
    /\ export_txt = None

\* The files that collect_code_files_in_dir(directory) has to return: the
\* regular files below directory with an exportable extension on whose way
\* down from directory no name, the file's own included, is hidden or ignored.
ExportableBelow(f, directory) ==
    { p \in DOMAIN f :
        /\ f[p].kind = "file"
        /\ Len(p) > Len(directory)
        /\ \A k \in 1..Len(directory) : p[k] = directory[k]
        /\ HasCodeExtension(p[Len(p)])
        /\ \A k \in (Len(directory) + 1)..Len(p) :
              p[k][1] # "." /\ p[k] \notin IGNORE_DIRS }

\* C10: collect_code_files_in_dir(dir) returns exactly the regular files at
\* any depth under dir whose extension, compared case-insensitively, is in
\* the allow-list and none of whose path segments relative to dir starts
\* with "." or is in the ignore set.
C10_CollectExact ==
    last.op = "collect" => collected = ExportableBelow(fs, last.dir)

\* A collect that returned a file two levels down and left out an exportable
\* file because of a hidden or ignored segment.
C10_Witness ==
    /\ last.op = "collect"
    /\ \E p \in collected : Len(p) >= Len(last.dir) + 2
    /\ \E p \in DOMAIN fs :
          /\ is_file(fs, p)
          /\ IsPrefix(last.dir, p)
          /\ HasCodeExtension(Name(p))
          /\ p \notin collected

\* The files a confirmed selection has to export: the union of the exportable
\* files below every checked directory, and every checked file with an
\* exportable extension.
ExpectedExport ==
    UNION { ExportableBelow(fs, id_to_path[n]) :
              n \in { m \in Nodes : IsChecked(m) /\ is_dir(fs, id_to_path[m]) } }
    \cup { id_to_path[n] :
              n \in { m \in Nodes : /\ IsChecked(m)
                                   /\ is_file(fs, id_to_path[m])
                                   /\ HasCodeExtension(Name(id_to_path[m])) } }

\* How many blocks a text holds: the lines that start with `Datei: "`.
BlockCount(text) ==
    Cardinality({ i \in 1..Len(text) :
                    /\ i + Len(s_Datei) - 1 <= Len(text)
                    /\ SubSeq(text, i, i + Len(s_Datei) - 1) = s_Datei
                    /\ (i = 1 \/ text[i - 1] = "\n") })

\* How many blocks of export.txt are headed by the file path.
BlocksOf(path) ==
    Cardinality({ i \in 1..Len(entries) : entries[i][1] = relativize(path, base_dir) })

FileOfBlock(i) ==
    CHOOSE p \in files_to_export : relativize(p, base_dir) = entries[i][1]

\* p comes before q when the paths are compared part by part: at the first
\* part where they differ, p's part is the smaller string.
PartwiseLess(p, q) ==
    \E k \in 1..Len(p) :
        /\ k <= Len(q)
        /\ \A j \in 1..(k - 1) : p[j] = q[j]
        /\ p[k] # q[k]
        /\ StrLess(p[k], q[k])

\* C12 as stated: the blocks of export.txt are in ascending lexicographic
\* order of the files' absolute paths, the paths taken as text.
C12_BlocksInTextOrder ==
    (pc = "exit" /\ exit_msg = MSG_EXPORTED) =>
        \A i, j \in 1..Len(entries) :
            i < j => StrLess(as_posix(FileOfBlock(i)), as_posix(FileOfBlock(j)))

\* C12, amended: the blocks of export.txt are in ascending order of the
\* files' absolute paths compared part by part (name by name, each name as
\* text), whatever the order in which the nodes were checked, expanded or
\* harvested.
C12_BlocksInPathOrder ==
    (pc = "exit" /\ exit_msg = MSG_EXPORTED) =>
        /\ \A i \in 1..Len(entries) :
              \E p \in files_to_export : relativize(p, base_dir) = entries[i][1]
        /\ \A i, j \in 1..Len(entries) :
              i < j => PartwiseLess(FileOfBlock(i), FileOfBlock(j))

\* An export of e/a.py and e.py, harvested in the other order (e.py was
\* created before e was expanded), with the block of e/a.py first.
C12_Witness ==
    /\ pc = "exit"
    /\ exit_msg = MSG_EXPORTED
    /\ Len(entries) = 2
    /\ FileOfBlock(1) = <<n_w, n_e, n_a_py>>
    /\ FileOfBlock(2) = <<n_w, n_e_py>>
    /\ result_dirs = Some(<<>>)
    /\ result_files = Some(<< <<n_w, n_e_py>>, <<n_w, n_e, n_a_py>> >>)

\* A line of text: the text and the newline that ends it.
Line(t) == t \o <<"\n">>

\* The block of one entry: the line Datei: "<rel>", the line Code: """\, the
\* content followed by a newline, the line """, and an empty line.
Block(rel, code) ==
    Line(<<"D", "a", "t", "e", "i", ":", " ", "\"">> \o rel \o <<"\"">>)
    \o Line(<<"C", "o", "d", "e", ":", " ", "\"", "\"", "\"", "\\">>)
    \o Line(code)
    \o Line(<<"\"", "\"", "\"">>)
    \o Line(<<>>)

\* The blocks of the first n entries, one after the other.
RECURSIVE Blocks(_, _)
Blocks(es, n) ==
    IF n = 0 THEN <<>> ELSE Blocks(es, n - 1) \o Block(es[n][1], es[n][2])

\* C13: for every list of entries, write_export writes exactly the blocks of
\* the entries, in the order of the list, with nothing before, between or
\* after them; one entry a.py with the content x=1\n gives the five lines
\* Datei: "a.py", Code: """\, x=1, an empty line, """ and an empty line.
C13_WriteExportFormat ==
    last.op = "write" =>
        /\ export_txt = Some(Blocks(entries, Len(entries)))
        /\ fs[Append(base_dir, EXPORT_FILENAME)] = File(Blocks(entries, Len(entries)))
        /\ entries = << <<n_a_py, d_x>> >> =>
              export_txt[1] =
                 <<"D", "a", "t", "e", "i", ":", " ", "\"", "a", ".", "p", "y", "\"", "\n",
                   "C", "o", "d", "e", ":", " ", "\"", "\"", "\"", "\\", "\n",
                   "x", "=", "1", "\n",
                   "\n",
                   "\"", "\"", "\"", "\n",
                   "\n">>

\* write_export has written two entries, the second one with the content
\* x=1\n.
C13_Witness ==
    /\ last.op = "write"
    /\ Len(entries) = 2
    /\ entries[1][2] # d_x
    /\ entries[2] = <<n_a_py, d_x>>
    /\ export_txt # None
    /\ Len(export_txt[1]) > 2 * Len(Block(<<>>, <<>>))

\* The places of a text that stay: all but a "\n" that follows a "\r".
Kept(t) == { i \in 1..Len(t) : ~(t[i] = "\n" /\ i > 1 /\ t[i - 1] = "\r") }

\* The i-th smallest element of a set of numbers.
Nth(S, i) == CHOOSE x \in S : Cardinality({ y \in S : y <= x }) = i

\* The text with each "\r\n" and each lone "\r" replaced by one "\n": the
\* characters at the places that stay, in order, "\r" turned into "\n".
OneNewlineEach(t) ==
    [i \in 1..Cardinality(Kept(t)) |->
        IF t[Nth(Kept(t), i)] = "\r" THEN "\n" ELSE t[Nth(Kept(t), i)]]

\* The line ends of a text: its "\r\n" pairs, lone "\r" and lone "\n".
LineEnds(t) == { i \in Kept(t) : t[i] \in {"\r", "\n"} }

\* C14: normalize_newlines, and read_file through it, map a text to the text
\* in which each "\r\n" and each lone "\r" is one "\n" and every other
\* character is kept in order: no "\r" is left, there are as many "\n" as
\* the text had line ends, normalizing the result again changes nothing, and
\* a\r\nb\rc\n becomes a\nb\nc\n.
C14_NewlinesNormalized ==
    last.op \in {"normalize", "read"} =>
        LET t == fs[TextFile].data
        IN  /\ last.ret = OneNewlineEach(t)
            /\ \A i \in 1..Len(last.ret) : last.ret[i] # "\r"
            /\ Cardinality({ i \in 1..Len(last.ret) : last.ret[i] = "\n" })
                  = Cardinality(LineEnds(t))
            /\ normalize_newlines(last.ret) = last.ret
            /\ t = d_mixed => last.ret = <<"a", "\n", "b", "\n", "c", "\n">>

\* normalize_newlines has run on a text with a "\r\n" pair, a lone "\r" and
\* a lone "\n".
C14_Witness ==
    /\ last.op = "normalize"
    /\ LET t == fs[TextFile].data
       IN  /\ \E i \in 1..(Len(t) - 1) : t[i] = "\r" /\ t[i + 1] = "\n"
           /\ \E i \in 1..Len(t) :
                 t[i] = "\r" /\ (i = Len(t) \/ t[i + 1] # "\n")
           /\ \E i \in 1..Len(t) : t[i] = "\n" /\ (i = 1 \/ t[i - 1] # "\r")
           /\ Len(last.ret) = Len(t) - 1

\* The immediate children of directory d that the tree shows: those whose
\* name neither starts with "." nor is in the ignore set.
VisibleChildren(d) ==
    { p \in DOMAIN fs :
        /\ Len(p) = Len(d) + 1
        /\ SubSeq(p, 1, Len(d)) = d
        /\ p[Len(p)][1] # "."
        /\ p[Len(p)] \notin IGNORE_DIRS }

\* Item c is a placeholder: it stands for no path and has no children.
IsDummy(c) == c \notin Nodes /\ tree_children[c] = <<>>

\* Directory node n is unloaded: its only child is its placeholder.
Unloaded(n) ==
    /\ Len(tree_children[n]) = 1
    /\ IsDummy(tree_children[n][1])

\* Directory node n is fully loaded: its children are nodes, one for each
\* visible child of its directory, in case-insensitive order of their names.
FullyLoaded(n) ==
    LET cs == tree_children[n]
    IN  /\ \A i \in 1..Len(cs) : cs[i] \in Nodes
        /\ { id_to_path[cs[i]] : i \in 1..Len(cs) } = VisibleChildren(id_to_path[n])
        /\ \A i, j \in 1..Len(cs) : i # j => cs[i] # cs[j]
        /\ \A i \in 1..(Len(cs) - 1) :
              ~ StrLess(Lower(Name(id_to_path[cs[i + 1]])),
                        Lower(Name(id_to_path[cs[i]])))

\* Every directory node is unloaded, and its directory was never listed, or
\* fully loaded, and its directory was listed; no placeholder stands next to
\* another child; a file node has no children; no two nodes have one path.
TreeShape ==
    /\ \A n \in Nodes :
          IF is_dir(fs, id_to_path[n])
          THEN IF Unloaded(n)
               THEN listed[id_to_path[n]] = 0
               ELSE FullyLoaded(n) /\ listed[id_to_path[n]] = 1
          ELSE tree_children[n] = <<>>
    /\ \A n \in Nodes : \A i \in 1..Len(tree_children[n]) :
          IsDummy(tree_children[n][i]) => Len(tree_children[n]) = 1
    /\ \A n, m \in Nodes : n # m => id_to_path[n] # id_to_path[m]

\* C15: while the dialog is open the tree has the shape TreeShape: each
\* directory node is unloaded (one placeholder, no node below it) or fully
\* loaded (no placeholder, each visible child once, in case-insensitive name
\* order), never a placeholder next to nodes; and a directory node that was
\* listed stays a node of that directory, listed, with nodes for children.
C15_UnloadedOrFullyLoaded ==
    /\ [](pc = "dialog" => TreeShape)
    /\ [][ \A n \in Nodes :
              (pc = "dialog" /\ is_dir(fs, id_to_path[n]) /\ listed[id_to_path[n]] = 1)
                 => /\ n \in DOMAIN id_to_path'
                    /\ id_to_path'[n] = id_to_path[n]
                    /\ listed'[id_to_path[n]] = 1
                    /\ \A i \in 1..Len(tree_children'[n]) :
                          tree_children'[n][i] \in DOMAIN id_to_path'
         ]_vars

\* Below the root there are a loaded directory with three children, one of
\* them a loaded directory without children, and an unloaded directory, and
\* select-all has run on this tree.
C15_Witness ==
    /\ pc = "dialog"
    /\ last.op = "select_all"
    /\ \E n, m, u \in Nodes :
          /\ n # 1 /\ is_dir(fs, id_to_path[n]) /\ FullyLoaded(n)
          /\ Len(tree_children[n]) >= 2
          /\ \E i \in 1..Len(tree_children[n]) : tree_children[n][i] = m
          /\ is_dir(fs, id_to_path[m]) /\ FullyLoaded(m) /\ tree_children[m] = <<>>
          /\ is_dir(fs, id_to_path[u]) /\ Unloaded(u)

\* Node n is a leaf: no node is its child.
IsLeaf(n) == \A i \in 1..Len(tree_children[n]) : tree_children[n][i] \notin Nodes

\* C16: in every state of the dialog, toggling any node n leaves every node
\* outside n's subtree (ancestors and siblings among them) with its checked
\* state and its row text, keeps the set of nodes, their paths and names,
\* and the children of every item, placeholders included, as they are, and
\* when n is a leaf changes the state of no node but n.
C16_ToggleFrame ==
    pc = "dialog" =>
        \A n \in Nodes : \A new_state \in {None, Some(TRUE), Some(FALSE)} :
            \A after \in {toggle_item(Dialog, n, new_state)} :
                /\ after.paths = id_to_path
                /\ after.children = tree_children
                /\ after.next = next_iid
                /\ DOMAIN after.text = DOMAIN tree_text
                /\ \A d \in Nodes :
                      /\ d \in DictKeys(after.sel)
                      /\ NameOfText(after.text[d]) = NameOfText(tree_text[d])
                      /\ (~InSubtree(id_to_path, n, d) \/ (IsLeaf(n) /\ d # n))
                            => /\ DictGet(after.sel, d) = IsChecked(d)
                               /\ after.text[d] = tree_text[d]

\* A click has unchecked a file two levels below the root; its parent, the
\* root and a sibling are still checked.
C16_Witness ==
    /\ pc = "dialog"
    /\ last.op = "click"
    /\ IsLeaf(last.item)
    /\ ~IsChecked(last.item)
    /\ IsChecked(1)
    /\ \E a, b \in Nodes :
          /\ a # 1 /\ a # last.item /\ b # last.item
          /\ \E i, j \in 1..Len(tree_children[a]) :
                tree_children[a][i] = last.item /\ tree_children[a][j] = b
          /\ IsChecked(a)
          /\ IsChecked(b)

\* C17: select-all and deselect-all run to completion: the loop over
\* selected_items does not end with RuntimeError, and the keys of
\* selected_items after it are the keys before it.
C17_SelectAllCompletes ==
    [][ last'.op \in {"select_all", "deselect_all"} =>
          /\ ~last'.raised
          /\ DictKeys(selected_items') = DictKeys(selected_items)
      ]_vars

\* The items of the tree that are no nodes: the placeholders.
Dummies == (DOMAIN tree_children \ {0}) \ Nodes

\* The nodes that are checked.
CheckedNodes == { n \in Nodes : IsChecked(n) }

\* C18: while the dialog is open, every key of selected_items is a node or
\* the placeholder of a directory that was not listed yet, and every
\* placeholder in the tree is the only child of such a directory; an expand
\* that lists a directory takes its placeholder out of the tree and out of
\* selected_items; and confirm returns one path for each checked node and
\* none for a placeholder, checked or not.
C18_KeysAreNodesOrDummies ==
    /\ [](pc = "dialog" =>
            /\ \A i, j \in 1..Len(selected_items) :
                  i # j => selected_items[i][1] # selected_items[j][1]
            /\ DictKeys(selected_items) \subseteq Nodes \cup Dummies
            /\ Nodes \subseteq DictKeys(selected_items)
            /\ \A k \in Dummies :
                  \E n \in Nodes : /\ is_dir(fs, id_to_path[n])
                                   /\ listed[id_to_path[n]] = 0
                                   /\ tree_children[n] = <<k>>
            /\ \A r \in {on_ok(Dialog, fs)} :
                  /\ Len(r.dirs) + Len(r.files) = Cardinality(CheckedNodes)
                  /\ { r.dirs[i] : i \in 1..Len(r.dirs) }
                        \cup { r.files[i] : i \in 1..Len(r.files) }
                      = { id_to_path[n] : n \in CheckedNodes })
    /\ [][ (last'.op = "open" /\ last'.listing) =>
              /\ tree_children[last'.item] # <<>>
              /\ tree_children[last'.item][1] \in Dummies
              /\ tree_children[last'.item][1] \notin DOMAIN tree_children'
              /\ tree_children[last'.item][1] \notin DOMAIN tree_text'
              /\ tree_children[last'.item][1] \notin DictKeys(selected_items')
              /\ \A i \in 1..Len(tree_children'[last'.item]) :
                    tree_children'[last'.item][i] \in DOMAIN id_to_path'
         ]_vars

\* Confirm has run with two placeholders in selected_items, one checked and
\* one unchecked, and with an expanded directory below the root; the result
\* holds the checked nodes only.
C18_Witness ==
    /\ pc = "closed"
    /\ last.op = "ok"
    /\ \E k \in DictKeys(selected_items) \ Nodes : DictGet(selected_items, k)
    /\ \E k \in DictKeys(selected_items) \ Nodes : ~DictGet(selected_items, k)
    /\ \E n \in Nodes : n # 1 /\ IsLoaded(n) /\ tree_children[n] # <<>>
    /\ Len(result_dirs[1]) + Len(result_files[1]) = Cardinality(CheckedNodes)
    /\ Cardinality(CheckedNodes) >= 2

=============================================================================
